---- MODULE Spec2Model ----
(***************************************************************************)
(* smartifier3 (src/main.rs): rewriting of vertex and edge records into    *)
(* smart graph form.  Strings are sequences of one-character strings.      *)
(***************************************************************************)
EXTENDS Integers, Sequences, FiniteSets, TLC

VARIABLES
    pc,         \* position of the running operation
    s,          \* codec: the logical value handed to quote_string
    quoted,     \* codec: the result of quote_string(s, quo)
    unquoted,   \* codec: the result of unquote(quoted, quo)
    data_type,  \* "CSV" or "JSONL" (DataType, main.rs:16)
    args,       \* the options main hands to do_vertices / do_edges
    input,      \* the lines of the input file
    next,       \* 1-based index of the next line of input to read
    hdr,        \* what the header row set: col_headers and the positions
    row_parts,  \* the fields of the tabular row written last (the loop's parts)
    writer,     \* the lines written to the output so far
    translation,\* the Translation table handed to the edge transforms
    status,     \* the status the run returned, -1 while it runs
    pass,       \* 1: first run; 2: the run over the first run's output
    fs,         \* the files by path, where file operations are modelled
    original,   \* fs as it was before the run
    colls,      \* do_edges: edge_collections, where a list of them is modelled
    results,    \* do_edges: the statuses the transforms have returned so far
    ret,        \* do_edges: the status returned, -1 while it runs
    log         \* the outcomes of the transforms so far, each with its status

codecVars == <<s, quoted, unquoted>>
fileVars == <<fs, original>>
sessionVars == <<colls, results, ret, log>>
runVars == <<data_type, args, input, next, hdr, row_parts, writer, translation, status, pass,
             fs, original, sessionVars>>
vars == <<pc, s, quoted, unquoted, data_type, args, input, next, hdr, row_parts, writer,
          translation, status, pass, fs, original, colls, results, ret, log>>

\* ---------------------------------------------------------------- bounds

\* longest logical value handed to the codec
MaxStrLen == 4

\* ------------------------------------------------------------ characters

\* --separator default (main.rs:457) and --quote-char default (main.rs:463)
sep == ","
quo == "\""

\* a value that is not a string (absent field, no result yet)
None == <<"none">>

\* all sequences over alphabet A of length 0..n
RECURSIVE StrUpTo(_, _)
StrUpTo(A, n) ==
    IF n = 0 THEN {<<>>}
    ELSE LET shorter == StrUpTo(A, n - 1)
         IN  shorter \cup {Append(x, c) : x \in {y \in shorter : Len(y) = n - 1}, c \in A}

\* str.contains(c)
Contains(str, c) == \E i \in 1..Len(str) : str[i] = c

\* str.find(c): the 0-based position of the first c, -1 for Rust's None
Find(str, c) ==
    IF Contains(str, c)
    THEN (CHOOSE i \in 1..Len(str) : str[i] = c /\ \A j \in 1..(i - 1) : str[j] # c) - 1
    ELSE -1

\* &str[from..to] with 0-based, end-exclusive positions
Slice(str, from, to) == SubSeq(str, from + 1, to)

\* ------------------------------------------------------------------ codec

\* the loop of unquote (main.rs:131-150); pos is 0-based as in the source
RECURSIVE UnquoteScan(_, _, _, _)
UnquoteScan(chars, pos, in_quote, res) ==
    IF pos >= Len(chars) THEN res
    ELSE IF in_quote
         THEN IF chars[pos + 1] = quo
              THEN IF pos + 1 < Len(chars) /\ chars[pos + 2] = quo
                   THEN UnquoteScan(chars, pos + 2, TRUE, Append(res, quo))
                   ELSE UnquoteScan(chars, pos + 1, FALSE, res)
              ELSE UnquoteScan(chars, pos + 1, TRUE, Append(res, chars[pos + 1]))
         ELSE UnquoteScan(chars, pos + 1, chars[pos + 1] = quo, res)

unquote(str) ==
    IF ~Contains(str, quo) THEN str
    ELSE UnquoteScan(str, Find(str, quo) + 1, TRUE, <<>>)

\* the loop of quote_string (main.rs:161-168)
RECURSIVE QuoteChars(_)
QuoteChars(str) ==
    IF str = <<>> THEN <<>>
    ELSE (IF Head(str) = quo THEN <<quo, quo>> ELSE <<Head(str)>>) \o QuoteChars(Tail(str))

\* quote_string without the doubling of inner quote characters
QuoteNoDoubling(str) ==
    IF ~Contains(str, quo) THEN str ELSE <<quo>> \o str \o <<quo>>

quote_string(str) ==
    IF ~Contains(str, quo) THEN str
    ELSE <<quo>> \o QuoteChars(str) \o <<quo>>

\* ------------------------------------------------- codec as a state machine

CodecAlphabet == {"a", sep, quo}

\* no list of edge collections is modelled
SessionIdle ==
    /\ colls = <<>>
    /\ results = <<>>
    /\ ret = -1
    /\ log = {}

\* the variables of a run while the codec alone is exercised
RunIdle ==
    /\ data_type = "CSV"
    /\ args = <<>>
    /\ input = <<>>
    /\ next = 1
    /\ hdr = <<>>
    /\ row_parts = <<>>
    /\ writer = <<>>
    /\ translation = [key_tab |-> <<>>, smart_attributes |-> <<>>]
    /\ status = -1
    /\ pass = 1
    /\ fs = <<>>
    /\ original = <<>>
    /\ SessionIdle

\* the codec's variables while a run is modelled
CodecIdle ==
    /\ s = None
    /\ quoted = None
    /\ unquoted = None

CodecInit ==
    /\ pc = "codec"
    /\ s \in StrUpTo(CodecAlphabet, MaxStrLen)
    /\ quoted = None
    /\ unquoted = None
    /\ RunIdle

QuoteString ==
    /\ pc = "codec"
    /\ quoted = None
    /\ quoted' = quote_string(s)
    /\ UNCHANGED <<pc, s, unquoted, runVars>>

Unquote ==
    /\ pc = "codec"
    /\ quoted # None
    /\ unquoted = None
    /\ unquoted' = unquote(quoted)
    /\ UNCHANGED <<pc, s, quoted, runVars>>

CodecNext == QuoteString \/ Unquote

SpecCodec == CodecInit /\ [][CodecNext]_vars

\* C6: unquote(quote_string(s, q), q) = s for every s holding the quote
\* character, and quote_string returns every s without it unchanged.
QuoteRoundTrip ==
    /\ (quoted # None /\ ~Contains(s, quo)) => quoted = s
    /\ (unquoted # None /\ Contains(s, quo)) => unquoted = s

\* a value with a leading, a doubled and a trailing quote character went
\* through quote_string and unquote
QuoteRoundTripWitness ==
    /\ unquoted # None
    /\ Len(s) >= 3
    /\ s[1] = quo /\ s[2] = quo /\ s[Len(s)] = quo

\* ----------------------------------------------------------- tabular rows

\* the outcome of a row whose processing indexes outside the row (panic)
Panic == <<"panic">>

\* a character of two bytes in UTF-8; every other character of the model is
\* one byte
Wide == "U+00E4"

\* the byte position of the 0-based character k of line
ByteOffset(line, k) == k + Cardinality({i \in 1..k : line[i] = Wide})

\* line.len(): the length in bytes
ByteLen(line) == ByteOffset(line, Len(line))

\* the characters that start at the byte position b (the end of the line
\* counts as a start): none where b is inside a character
CharsAt(line, b) == {k \in 0..Len(line) : ByteOffset(line, k) = b}

\* the closure add of split (main.rs:67-70): result.push(line[*start..pos]),
\* for a line of len bytes; a slice that starts or ends inside a character
\* panics
Add(line, len, start, pos, result) ==
    IF len = Len(line) THEN Append(result, Slice(line, start, pos))
    ELSE LET from == CharsAt(line, start)
             to   == CharsAt(line, pos)
         IN  IF from = {} \/ to = {} THEN Panic
             ELSE Append(result, Slice(line, CHOOSE k \in from : TRUE, CHOOSE k \in to : TRUE))

\* the loop of split (main.rs:72-101) and the last add (main.rs:104); pos and
\* start are 0-based byte positions and run up to len = line.len(), while
\* line.chars().nth(pos) counts characters and is None, so that unwrap
\* panics, from the number of characters on
RECURSIVE SplitScan(_, _, _, _, _, _)
SplitScan(line, len, pos, start, in_quote, result) ==
    IF result = Panic THEN Panic
    ELSE IF pos >= len THEN Add(line, len, start, pos, result)
    ELSE IF pos >= Len(line) THEN Panic
    ELSE LET c == line[pos + 1]
         IN  IF ~in_quote
             THEN IF c = quo THEN SplitScan(line, len, pos + 1, start, TRUE, result)
                  ELSE IF c = sep
                       THEN SplitScan(line, len, pos + 1, pos + 1, FALSE,
                                      Add(line, len, start, pos, result))
                       ELSE SplitScan(line, len, pos + 1, start, FALSE, result)
             ELSE IF c = quo
                  THEN IF pos + 1 < len
                       THEN IF pos + 1 >= Len(line) THEN Panic
                            ELSE IF line[pos + 2] = quo
                                 THEN SplitScan(line, len, pos + 2, start, TRUE, result)
                                 ELSE SplitScan(line, len, pos + 1, start, FALSE, result)
                       ELSE SplitScan(line, len, pos + 1, start, FALSE, result)
                  ELSE SplitScan(line, len, pos + 1, start, TRUE, result)

split(line) == SplitScan(line, ByteLen(line), 0, 0, FALSE, <<>>)

\* find_col_pos: 0-based position of the first equal header, -1 if none
find_col_pos(col_headers, header) ==
    IF \E i \in 1..Len(col_headers) : col_headers[i] = header
    THEN (CHOOSE i \in 1..Len(col_headers) :
            /\ col_headers[i] = header
            /\ \A j \in 1..(i - 1) : col_headers[j] # header) - 1
    ELSE -1

\* while parts.len() < ncols { parts.push(String::new()) }
RECURSIVE Pad(_, _)
Pad(parts, ncols) == IF Len(parts) < ncols THEN Pad(Append(parts, <<>>), ncols) ELSE parts

\* write!(out, parts[0]); for i in 1.. write!(out, sep, parts[i])
RECURSIVE WriteRow(_)
WriteRow(parts) ==
    IF parts = <<>> THEN <<>>
    ELSE IF Len(parts) = 1 THEN parts[1]
    ELSE parts[1] \o <<sep>> \o WriteRow(Tail(parts))

\* (i as usize) < n for an i32 i: a negative i wraps to a huge usize
Below(i, n) == i >= 0 /\ i < n

\* the names of the fields the tool looks for
KeyField == <<"_", "k", "e", "y">>
SmartId == <<"s", "m", "a", "r", "t", "_", "i", "d">>
ValueField == <<"v">>

\* ------------------------------------------------------- vertices, tabular

\* if smart_index > 0 && len > smart_index { val[..smart_index] }
Truncate(val, smart_index) ==
    IF smart_index > 0 /\ Len(val) > smart_index THEN Slice(val, 0, smart_index) ELSE val

\* do_vertices, the header row (main.rs:691-734)
VertexHeader(header_line, a) ==
    LET raw  == split(header_line)
        h0   == [i \in 1..Len(raw) |-> unquote(raw[i])]
        sap0 == find_col_pos(h0, a.smart_attr)
        h1   == IF sap0 < 0 THEN Append(h0, a.smart_attr) ELSE h0
        sap  == IF sap0 < 0 THEN Len(h0) ELSE sap0
        svp  == IF a.smart_value # <<>> THEN find_col_pos(h1, a.smart_value) ELSE -1
        kp0  == find_col_pos(h1, KeyField)
        add  == kp0 < 0 /\ a.write_key
        h2   == IF add THEN Append(h1, KeyField) ELSE h1
        kp   == IF add THEN Len(h1) ELSE kp0
        kvp  == IF a.key_value # <<>> THEN find_col_pos(h2, a.key_value) ELSE -1
    IN  [col_headers |-> h2, ncols |-> Len(h2), smart_attr_pos |-> sap,
         smart_value_pos |-> svp, key_pos |-> kp, key_value_pos |-> kvp]

\* do_vertices, the header as written (main.rs:736-744)
WriteHeader(col_headers) ==
    WriteRow([i \in 1..Len(col_headers) |-> quote_string(col_headers[i])])

\* att + ":" + &key (main.rs:233, 245, 371)
smart_key(att, key) == att \o <<":">> \o key

\* transform_vertex_csv (main.rs:185-246): the fields of the row as they are
\* written, or Panic
transform_vertex_csv(line, ncols, smart_attr_pos, smart_value_pos, smart_index, key_pos, key_value_pos) ==
    LET p0 == Pad(split(line), ncols)
        p1 == IF ~Below(smart_attr_pos, Len(p0)) THEN Append(p0, <<>>) ELSE p0
        p2 == IF ~Below(key_pos, Len(p1)) THEN Append(p1, <<>>) ELSE p1
        n  == Len(p2)
        useValue == smart_value_pos >= 0 /\ smart_value_pos < n
        useKeyValue == key_value_pos >= 0 /\ key_value_pos < n
    IN  IF ~Below(smart_attr_pos, n) THEN Panic
        ELSE
        LET val == Truncate(unquote(p2[smart_value_pos + 1]), smart_index)
            p3  == IF useValue
                   THEN [p2 EXCEPT ![smart_attr_pos + 1] = quote_string(val)]
                   ELSE p2
            att == IF useValue THEN val ELSE unquote(p2[smart_attr_pos + 1])
        IN  IF ~useKeyValue /\ ~Below(key_pos, n) THEN Panic
            ELSE
            LET key == IF useKeyValue THEN unquote(p3[key_value_pos + 1])
                       ELSE unquote(p3[key_pos + 1])
                split_pos == Find(key, ":")
            IN  IF split_pos < 0
                THEN IF ~Below(key_pos, n) THEN Panic
                     ELSE [p3 EXCEPT ![key_pos + 1] = quote_string(smart_key(att, key))]
                ELSE IF Slice(key, 0, split_pos) # att
                     THEN IF ~Below(key_pos, n) THEN Panic
                          ELSE [p3 EXCEPT ![key_pos + 1] =
                                   quote_string(smart_key(att,
                                                    Slice(key, split_pos + 1, Len(key))))]
                     ELSE p3

\* -------------------------------------------------------- vertices, object

\* serde_json::Value: t is the type, v the text its to_string() gives
Str(x) == [t |-> "string", v |-> x]
Absent == [t |-> "absent", v |-> <<>>]

\* obj.get(field)
Get(obj, field) == IF field \in DOMAIN obj THEN obj[field] ELSE Absent

\* a parsed line: kind is "invalid" (parse error), "scalar" (valid, no object)
\* or "object"
Object(obj) == [kind |-> "object", obj |-> obj]

\* the line is not written (parse error, no object)
Skip == [kind |-> "skip", obj |-> <<>>]

\* smart_to_string (main.rs:264-304)
smart_to_string(val, smart_default) ==
    CASE val.t = "string"             -> val.v
      [] val.t \in {"bool", "number"} -> val.v
      [] val.t \in {"null", "absent"} -> smart_default
      [] OTHER                        -> <<>>

\* transform_vertex_jsonl (main.rs:308-406): the object written, or Skip
transform_vertex_jsonl(line, smart_attr, smart_value, smart_index, smart_default, write_key, key_value) ==
    IF line.kind # "object" THEN Skip
    ELSE
    LET obj == line.obj
        att_val == IF smart_value # <<>>
                   THEN smart_to_string(Get(obj, smart_value), smart_default)
                   ELSE smart_to_string(Get(obj, smart_attr), smart_default)
        final_att_val == Truncate(att_val, smart_index)
        key_slice == IF key_value # <<>> THEN Get(obj, key_value) ELSE Get(obj, KeyField)
        new_key == IF key_slice.t # "string" THEN <<>>
                   ELSE IF Contains(key_slice.v, ":") THEN key_slice.v
                   ELSE IF final_att_val # <<>>
                        THEN smart_key(final_att_val, key_slice.v)
                        ELSE key_slice.v
        fields == (IF write_key \/ new_key # <<>> THEN {KeyField} ELSE {})
                  \cup {smart_attr}
                  \cup (DOMAIN obj \ {KeyField, smart_attr})
    IN  Object([f \in fields |->
                  IF f = smart_attr THEN Str(final_att_val)
                  ELSE IF f = KeyField THEN Str(new_key)
                  ELSE obj[f]])

\* ------------------------------------------------ vertices: the run's steps

\* longest tabular data row of the input
MaxLineLen == 4
\* longest string value of an input object
MaxJsonStrLen == 2

LineAlphabet == {"a", ":", sep, quo}
JsonAlphabet == {"a", ":"}

\* header rows: the columns _key, smart_id and v, any of them, in any order
VertexHeaders ==
    LET names == {KeyField, SmartId, ValueField}
    IN  {<<x>> : x \in names}
        \cup {h \in {<<x, y>> : x \in names, y \in names} : h[1] # h[2]}
        \cup {h \in {<<x, y, z>> : x \in names, y \in names, z \in names} :
                 Cardinality({h[1], h[2], h[3]}) = 3}

\* --smart-index: -1 when not given (main.rs:570-574)
SmartIndexes == {-1, 1, 2}

\* the options of the vertices subcommand (main.rs:536-582)
VertexArgs ==
    [smart_attr : {SmartId}, smart_value : {<<>>, ValueField},
     smart_index : SmartIndexes, smart_default : {<<>>, <<"d">>},
     write_key : BOOLEAN, key_value : {<<>>, ValueField}]

JsonValues ==
    {Str(x) : x \in StrUpTo(JsonAlphabet, MaxJsonStrLen)}
    \cup {[t |-> "null", v |-> <<>>], [t |-> "bool", v |-> <<"t", "r", "u", "e">>],
          [t |-> "number", v |-> <<"4", "2">>], [t |-> "array", v |-> <<>>]}

\* objects with any of the fields _key, smart_id and v
JsonObjects ==
    UNION {[names -> JsonValues] : names \in SUBSET {KeyField, SmartId, ValueField}}

JsonLines ==
    {Object(o) : o \in JsonObjects}
    \cup {[kind |-> "invalid", obj |-> <<>>], [kind |-> "scalar", obj |-> <<>>]}

NoHeader == [col_headers |-> <<>>, ncols |-> 0, smart_attr_pos |-> -1,
             smart_value_pos |-> -1, key_pos |-> -1, key_value_pos |-> -1]

\* a tabular file of a header row and one data row, or an object file of one
\* line; smart_default is an option of the object encoding only
VertexInit ==
    /\ CodecIdle
    /\ data_type \in {"CSV", "JSONL"}
    /\ args \in VertexArgs
    /\ data_type = "CSV" => args.smart_default = <<>>
    /\ IF data_type = "CSV"
       THEN input \in {<<WriteHeader(h), l>> :
                          h \in VertexHeaders, l \in StrUpTo(LineAlphabet, MaxLineLen)}
       ELSE input \in {<<l>> : l \in JsonLines}
    /\ pc = IF data_type = "CSV" THEN "header" ELSE "rows"
    /\ next = 1
    /\ hdr = NoHeader
    /\ row_parts = <<>>
    /\ writer = <<>>
    /\ translation = [key_tab |-> <<>>, smart_attributes |-> <<>>]
    /\ status = -1
    /\ pass = 1
    /\ fs = <<>>
    /\ original = <<>>
    /\ SessionIdle

\* do_vertices, CSV: the header row is read, completed and written; a file
\* without lines is given up with status 3 (main.rs:686-689)
DoVerticesHeader ==
    /\ pc = "header"
    /\ IF next > Len(input)
       THEN /\ pc' = "done"
            /\ status' = 3
            /\ UNCHANGED <<hdr, writer, next>>
       ELSE /\ hdr' = VertexHeader(input[next], args)
            /\ writer' = Append(writer, WriteHeader(hdr'.col_headers))
            /\ next' = next + 1
            /\ pc' = "rows"
            /\ UNCHANGED status
    /\ UNCHANGED <<codecVars, sessionVars, fileVars, data_type, args, input, row_parts, translation, pass>>

\* do_vertices, CSV: one iteration of the loop over the data rows
DoVerticesCsvRow ==
    /\ pc = "rows"
    /\ data_type = "CSV"
    /\ next <= Len(input)
    /\ LET row == transform_vertex_csv(input[next], hdr.ncols, hdr.smart_attr_pos,
                      hdr.smart_value_pos, args.smart_index, hdr.key_pos,
                      hdr.key_value_pos)
       IN  IF row = Panic
           THEN pc' = "panicked" /\ UNCHANGED <<row_parts, writer, next>>
           ELSE /\ pc' = "rows"
                /\ row_parts' = row
                /\ writer' = Append(writer, WriteRow(row))
                /\ next' = next + 1
    /\ UNCHANGED <<codecVars, sessionVars, fileVars, data_type, args, input, hdr, translation, status, pass>>

\* do_vertices, JSONL: one iteration of the loop over the lines
DoVerticesJsonlRow ==
    /\ pc = "rows"
    /\ data_type = "JSONL"
    /\ next <= Len(input)
    /\ LET row == transform_vertex_jsonl(input[next], args.smart_attr, args.smart_value,
                      args.smart_index, args.smart_default, args.write_key,
                      args.key_value)
       IN  writer' = IF row = Skip THEN writer ELSE Append(writer, row)
    /\ next' = next + 1
    /\ UNCHANGED <<pc, codecVars, sessionVars, fileVars, data_type, args, input, hdr, row_parts, translation, status, pass>>

\* do_vertices: end of input, the output is flushed and 0 returned
DoVerticesDone ==
    /\ pc = "rows"
    /\ next > Len(input)
    /\ pc' = "done"
    /\ status' = 0
    /\ UNCHANGED <<codecVars, sessionVars, fileVars, data_type, args, input, next, hdr, row_parts, writer, translation, pass>>

\* the tool is run again, with the same options, on the output of the first run
RunAgain ==
    /\ pc = "done"
    /\ status = 0
    /\ pass = 1
    /\ pass' = 2
    /\ input' = writer
    /\ writer' = <<>>
    /\ next' = 1
    /\ hdr' = NoHeader
    /\ row_parts' = <<>>
    /\ status' = -1
    /\ pc' = IF data_type = "CSV" THEN "header" ELSE "rows"
    /\ UNCHANGED <<codecVars, sessionVars, fileVars, data_type, args, translation>>

VertexNext ==
    \/ DoVerticesHeader
    \/ DoVerticesCsvRow
    \/ DoVerticesJsonlRow
    \/ DoVerticesDone
    \/ RunAgain

SpecVertex == VertexInit /\ [][VertexNext]_vars

\* C1: the vertex transform applied to its own output, with the same options,
\* writes that output again: header and records are the same.
VertexIdempotent ==
    (pass = 2 /\ pc \in {"done", "panicked"}) => (pc = "done" /\ writer = input)

\* the data record of a finished run, as read and as written
DataIndex == IF data_type = "CSV" THEN 2 ELSE 1
RecordRead == input[DataIndex]
RecordWritten == writer[DataIndex]
RecordDone == pc = "done" /\ Len(writer) >= DataIndex

\* the logical value of the field at a position of a tabular row, None if the
\* row has no such position
CsvField(row, pos) ==
    IF Below(pos, Len(row)) THEN unquote(row[pos + 1]) ELSE None

\* the string value of a field of an object, None if it holds no string
JsonField(line, field) ==
    IF Get(line.obj, field).t = "string" THEN Get(line.obj, field).v ELSE None

\* key field and sharding attribute field of a written vertex record
WrittenKey ==
    IF data_type = "CSV" THEN CsvField(row_parts, hdr.key_pos)
    ELSE JsonField(RecordWritten, KeyField)
WrittenAttr ==
    IF data_type = "CSV" THEN CsvField(row_parts, hdr.smart_attr_pos)
    ELSE JsonField(RecordWritten, args.smart_attr)

\* key is prefix:rest, prefix and rest not empty, prefix = att
IsCompositeFor(key, att) ==
    /\ key # None
    /\ Find(key, ":") > 0
    /\ Find(key, ":") + 1 < Len(key)
    /\ Slice(key, 0, Find(key, ":")) = att

\* the source key string of the record read: the key-value field if one is
\* configured and present, else the key field; None if there is no such string
SourceKey ==
    IF data_type = "CSV"
    THEN LET parts == Pad(split(RecordRead), hdr.ncols)
         IN  IF Below(hdr.key_value_pos, Len(parts))
             THEN unquote(parts[hdr.key_value_pos + 1])
             ELSE IF Below(hdr.key_pos, Len(parts))
                  THEN unquote(parts[hdr.key_pos + 1])
                  ELSE None
    ELSE JsonField(RecordRead, IF args.key_value # <<>> THEN args.key_value ELSE KeyField)

\* C3: every vertex record written (from a record that has a source key) has
\* a key field prefix:rest with a non-empty prefix and a non-empty rest, the
\* prefix being the value of the record's sharding attribute field.
CompositeKeyInvariant ==
    (RecordDone /\ SourceKey \notin {None, <<>>})
        => IsCompositeFor(WrittenKey, WrittenAttr)

\* the raw attribute value of the record read: the value-source field if one
\* is configured (tabular: and present), else the attribute field, with the
\* coercion of smart_to_string for objects
RawAttr ==
    IF data_type = "CSV"
    THEN LET parts == Pad(split(RecordRead), hdr.ncols)
         IN  IF Below(hdr.smart_value_pos, Len(parts))
             THEN unquote(parts[hdr.smart_value_pos + 1])
             ELSE unquote(parts[hdr.smart_attr_pos + 1])
    ELSE LET obj == RecordRead.obj
         IN  IF args.smart_value # <<>>
             THEN smart_to_string(Get(obj, args.smart_value), args.smart_default)
             ELSE smart_to_string(Get(obj, args.smart_attr), args.smart_default)

\* C4: with a truncation length N > 0 and a raw attribute value of length
\* >= N, the attribute field written holds the first N characters of the raw
\* value, whichever field the raw value was taken from.
TruncationLaw ==
    (RecordDone /\ args.smart_index > 0 /\ Len(RawAttr) >= args.smart_index)
        => WrittenAttr = Slice(RawAttr, 0, args.smart_index)

\* ----------------------------------------------------------- edges, tabular

FromField == <<"_", "f", "r", "o", "m">>
ToField == <<"_", "t", "o">>

\* translation.key_tab.get(full_key), then smart_attributes[att_idx]; the
\* indexes of key_tab are 0-based
Lookup(tr, full_key) ==
    IF full_key \in DOMAIN tr.key_tab
    THEN [some |-> TRUE, v |-> tr.smart_attributes[tr.key_tab[full_key] + 1]]
    ELSE [some |-> FALSE, v |-> <<>>]

\* format!("{}/{}:{}", coll, att, key)
Resolved(coll, att, key) == coll \o <<"/">> \o att \o <<":">> \o key

\* the closure fix_vertex of transform_edges_csv (main.rs:940-1005), for the
\* raw field at parts[pos]: the field as rewritten and the attribute returned
fix_vertex(raw, default_coll, smart_index, tr) ==
    LET u == unquote(raw)
    IN  IF Contains(u, "/")
        THEN LET slashpos == Find(u, "/")
                 coll == Slice(u, 0, slashpos)
                 after_slash == Slice(u, slashpos + 1, Len(u))
             IN  IF Contains(u, ":")
                 THEN [field |-> quote_string(u),
                       attr  |-> IF Contains(after_slash, ":")
                                 THEN Slice(after_slash, 0, Find(after_slash, ":"))
                                 ELSE <<>>]
                 ELSE IF smart_index > 0 /\ Len(after_slash) > smart_index
                      THEN [field |-> quote_string(Resolved(coll,
                                          Slice(after_slash, 0, smart_index), after_slash)),
                            attr  |-> Slice(after_slash, 0, smart_index)]
                      ELSE IF Lookup(tr, u).some
                           THEN [field |-> quote_string(Resolved(coll, Lookup(tr, u).v,
                                                                 after_slash)),
                                 attr  |-> Lookup(tr, u).v]
                           ELSE [field |-> quote_string(u), attr |-> <<>>]
        ELSE IF smart_index > 0 /\ Len(u) > smart_index
             THEN [field |-> quote_string(Resolved(default_coll,
                                 Slice(u, 0, smart_index), u)),
                   attr  |-> Slice(u, 0, smart_index)]
             ELSE LET full_key == default_coll \o <<"/">> \o u
                  IN  IF Lookup(tr, full_key).some
                      THEN [field |-> quote_string(Resolved(default_coll,
                                          Lookup(tr, full_key).v, u)),
                            attr  |-> Lookup(tr, full_key).v]
                      ELSE [field |-> quote_string(full_key), attr |-> <<>>]

\* the edge key with the attributes of _to and _from in the places of those of
\* _from and _to
NewKeySwapped(from_attr, key, to_attr) ==
    to_attr \o <<":">> \o key \o <<":">> \o from_attr

\* format!("{}:{}:{}", from_attr, key, to_attr) (main.rs:1013, 1143)
new_key(from_attr, key, to_attr) ==
    from_attr \o <<":">> \o key \o <<":">> \o to_attr

\* the header with no column renamed
RenameNothing(col_headers, column_renames) == col_headers

\* transform_edges_csv, the header row (main.rs:891-923): the renamed headers
\* and the positions of _from, _to and _key
RECURSIVE Rename(_, _)
Rename(col_headers, column_renames) ==
    IF column_renames = <<>> THEN col_headers
    ELSE LET r == Head(column_renames)
         IN  Rename(IF r[1] < Len(col_headers)
                    THEN [col_headers EXCEPT ![r[1] + 1] = r[2]]
                    ELSE col_headers,
                    Tail(column_renames))

EdgeHeader(header_line, edge_coll) ==
    LET raw == split(header_line)
        h   == Rename([i \in 1..Len(raw) |-> unquote(raw[i])], edge_coll.column_renames)
    IN  [col_headers |-> h, from_pos |-> find_col_pos(h, FromField),
         to_pos |-> find_col_pos(h, ToField), key_pos |-> find_col_pos(h, KeyField)]

\* transform_edges_csv, one data row (main.rs:930-1018): the fields of the row
\* as they are written
transform_edges_csv_row(line, h, edge_coll, smart_index, tr) ==
    LET p0 == Pad(split(line), Len(h.col_headers))
        f  == fix_vertex(p0[h.from_pos + 1], edge_coll.from_vertex_coll, smart_index, tr)
        p1 == [p0 EXCEPT ![h.from_pos + 1] = f.field]
        g  == fix_vertex(p1[h.to_pos + 1], edge_coll.to_vertex_coll, smart_index, tr)
        p2 == [p1 EXCEPT ![h.to_pos + 1] = g.field]
    IN  IF h.key_pos >= 0 /\ f.attr # <<>> /\ g.attr # <<>>
           /\ ~Contains(unquote(p2[h.key_pos + 1]), ":")
        THEN [p2 EXCEPT ![h.key_pos + 1] =
                 quote_string(new_key(f.attr, unquote(p2[h.key_pos + 1]), g.attr))]
        ELSE p2

\* ------------------------------------------------------------ edges, object

NoneStr == [some |-> FALSE, v |-> <<>>]
Some(x) == [some |-> TRUE, v |-> x]

\* fix_json_vertex (main.rs:1208-1273): (found, new value, attribute)
fix_json_vertex(obj, field, default_coll, smart_index, tr) ==
    IF field \notin DOMAIN obj
    THEN [found |-> FALSE, new_val |-> NoneStr, att |-> NoneStr]
    ELSE IF obj[field].t # "string"
    THEN [found |-> TRUE, new_val |-> NoneStr, att |-> NoneStr]
    ELSE
    LET old_val == obj[field].v
    IN  IF Contains(old_val, "/")
        THEN IF Contains(old_val, ":")
             THEN [found |-> TRUE, new_val |-> Some(old_val), att |-> NoneStr]
             ELSE LET slashpos == Find(old_val, "/")
                      coll == Slice(old_val, 0, slashpos)
                      after_slash == Slice(old_val, slashpos + 1, Len(old_val))
                  IN  IF smart_index > 0 /\ Len(after_slash) > smart_index
                      THEN [found |-> TRUE,
                            new_val |-> Some(Resolved(coll,
                                            Slice(after_slash, 0, smart_index),
                                            after_slash)),
                            att |-> Some(Slice(after_slash, 0, smart_index))]
                      ELSE IF Lookup(tr, old_val).some
                           THEN [found |-> TRUE,
                                 new_val |-> Some(Resolved(coll, Lookup(tr, old_val).v,
                                                           after_slash)),
                                 att |-> Some(Lookup(tr, old_val).v)]
                           ELSE [found |-> TRUE, new_val |-> Some(old_val),
                                 att |-> NoneStr]
        ELSE LET full_key == default_coll \o <<"/">> \o old_val
             IN  IF smart_index > 0 /\ Len(old_val) > smart_index
                 THEN [found |-> TRUE,
                       new_val |-> Some(Resolved(default_coll,
                                       Slice(old_val, 0, smart_index), old_val)),
                       att |-> Some(Slice(old_val, 0, smart_index))]
                 ELSE IF Lookup(tr, full_key).some
                      THEN [found |-> TRUE,
                            new_val |-> Some(Resolved(default_coll,
                                            Lookup(tr, full_key).v, old_val)),
                            att |-> Some(Lookup(tr, full_key).v)]
                      ELSE [found |-> TRUE, new_val |-> Some(full_key), att |-> NoneStr]

\* transform_edges_jsonl, one line (main.rs:1097-1177): the object written,
\* or Skip
transform_edges_jsonl_row(line, edge_coll, smart_index, tr) ==
    IF line.kind # "object" THEN Skip
    ELSE
    LET obj == line.obj
        f == fix_json_vertex(obj, FromField, edge_coll.from_vertex_coll, smart_index, tr)
        g == fix_json_vertex(obj, ToField, edge_coll.to_vertex_coll, smart_index, tr)
        composed ==
            IF f.found /\ f.att.some /\ g.found /\ g.att.some
               /\ Get(obj, KeyField).t = "string"
               /\ ~Contains(Get(obj, KeyField).v, ":")
            THEN Some(new_key(f.att.v, Get(obj, KeyField).v, g.att.v))
            ELSE NoneStr
    IN  Object([k \in DOMAIN obj |->
                  IF k = KeyField /\ composed.some THEN Str(composed.v)
                  ELSE IF k = FromField /\ f.new_val.some THEN Str(f.new_val.v)
                  ELSE IF k = ToField /\ g.new_val.some THEN Str(g.new_val.v)
                  ELSE obj[k]])

\* --------------------------------------------------- edges: the run's steps

\* longest endpoint reference (_from, _to) of an input edge
MaxRefLen == 3

\* _from references are written with the letter a, _to references with b
FromRefs == StrUpTo({"a", ":", "/"}, MaxRefLen)
ToRefs == StrUpTo({"b", ":", "/"}, MaxRefLen)

\* edge keys: empty, plain, with a colon, with the separator
EdgeKeys == {<<>>, <<"e">>, <<"e", ":">>, <<"e", sep>>}

\* a field as a well-formed tabular file holds it: wrapped in the quote
\* character if it holds the separator or the quote character
WellQuoted(x) ==
    IF Contains(x, sep) \/ Contains(x, quo) THEN <<quo>> \o QuoteChars(x) \o <<quo>> ELSE x

\* the options of the edges subcommand, for one edge collection
\* (main.rs:598-636, parse_edge_collections main.rs:807-844)
EdgeArgs ==
    [smart_index : SmartIndexes,
     edge_coll : {[file_name |-> "edges", from_vertex_coll |-> <<"f">>,
                   to_vertex_coll |-> <<"t">>, column_renames |-> <<>>]}]

\* a tabular edge file of a header row and one data row: columns _from, _to,
\* _key ("full"; "short": the row lacks its last field), columns _to, _from
\* ("swapped"), or columns _to, _key ("fromless")
EdgeShapes == {"full", "short", "swapped", "fromless"}
EdgeCsvFile(shape, f, g, k) ==
    IF shape = "full"
    THEN <<WriteHeader(<<FromField, ToField, KeyField>>),
           WriteRow(<<WellQuoted(f), WellQuoted(g), WellQuoted(k)>>)>>
    ELSE IF shape = "short"
    THEN <<WriteHeader(<<FromField, ToField, KeyField>>),
           WriteRow(<<WellQuoted(f), WellQuoted(g)>>)>>
    ELSE IF shape = "swapped"
    THEN <<WriteHeader(<<ToField, FromField>>),
           WriteRow(<<WellQuoted(g), WellQuoted(f)>>)>>
    ELSE <<WriteHeader(<<ToField, KeyField>>),
           WriteRow(<<WellQuoted(g), WellQuoted(k)>>)>>

\* an edge object of the given values; an Absent value is a missing field
EdgeObject(f, g, k) ==
    LET all == (FromField :> f) @@ (ToField :> g) @@ (KeyField :> k)
    IN  [x \in {y \in DOMAIN all : all[y] # Absent} |-> all[x]]

NotAString == [t |-> "number", v |-> <<"4", "2">>]

\* the values a field of an edge object takes: a string, none, not a string
FieldValues(strings) == {Str(x) : x \in strings} \cup {Absent, NotAString}

\* an edge file of one line: an object, a line that is no JSON, a line that
\* is no object
EdgeJsonLine(shape, f, g, k) ==
    IF shape = "full" THEN Object(EdgeObject(f, g, k))
    ELSE IF shape = "short" THEN [kind |-> "invalid", obj |-> <<>>]
    ELSE [kind |-> "scalar", obj |-> <<>>]

\* do_edges hands every transform an empty Translation (main.rs:1288)
EdgeInit ==
    /\ CodecIdle
    /\ data_type \in {"CSV", "JSONL"}
    /\ args \in EdgeArgs
    /\ IF data_type = "CSV"
       THEN \E shape \in EdgeShapes, f \in FromRefs, g \in ToRefs, k \in EdgeKeys :
               /\ shape \in {"short", "swapped"} => k = <<>>
               /\ shape = "fromless" => f = <<>>
               /\ input = EdgeCsvFile(shape, f, g, k)
       ELSE \E shape \in {"full", "short", "swapped"}, f \in FieldValues(FromRefs),
               g \in FieldValues(ToRefs), k \in FieldValues(EdgeKeys) :
               /\ shape # "full" => (f = Absent /\ g = Absent /\ k = Absent)
               /\ input = <<EdgeJsonLine(shape, f, g, k)>>
    /\ pc = IF data_type = "CSV" THEN "header" ELSE "rows"
    /\ next = 1
    /\ hdr = NoHeader
    /\ row_parts = <<>>
    /\ writer = <<>>
    /\ translation = [key_tab |-> <<>>, smart_attributes |-> <<>>]
    /\ status = -1
    /\ pass = 1
    /\ fs = <<>>
    /\ original = <<>>
    /\ SessionIdle

\* a file that does not exist, and a file of the given lines
NoFile == [exists |-> FALSE, lines |-> <<>>]
File(lines) == [exists |-> TRUE, lines |-> lines]

\* the temporary file's path with the path of the data file in its place
OutNameIsFileName(file_name) == file_name

\* edge_coll.file_name.clone() + ".out" (main.rs:864, 1073)
out_name(file_name) == file_name \o ".out"

\* the BufWriter is dropped on a return: the lines it holds reach the
\* temporary file (where file operations are modelled)
Dropped(files, file_name, lines) ==
    IF out_name(file_name) \in DOMAIN files
    THEN [files EXCEPT ![out_name(file_name)] = File(lines)]
    ELSE files

\* transform_edges_csv: the header row is read, renamed and written; a file
\* without lines is given up with status 3, a file without a _from or a _to
\* column with status 4
EdgesCsvHeader ==
    /\ pc = "header"
    /\ IF next > Len(input)
       THEN /\ pc' = "done"
            /\ status' = 3
            /\ fs' = Dropped(fs, args.edge_coll.file_name, writer)
            /\ UNCHANGED <<hdr, writer, next>>
       ELSE /\ hdr' = EdgeHeader(input[next], args.edge_coll)
            /\ writer' = Append(writer, WriteHeader(hdr'.col_headers))
            /\ next' = next + 1
            /\ IF hdr'.from_pos < 0 \/ hdr'.to_pos < 0
               THEN /\ pc' = "done"
                    /\ status' = 4
                    /\ fs' = Dropped(fs, args.edge_coll.file_name, writer')
               ELSE pc' = "rows" /\ UNCHANGED <<status, fs>>
    /\ UNCHANGED <<codecVars, sessionVars, original, data_type, args, input, row_parts, translation, pass>>

\* transform_edges_csv: one iteration of the loop over the data rows
EdgesCsvRow ==
    /\ pc = "rows"
    /\ data_type = "CSV"
    /\ next <= Len(input)
    /\ row_parts' = transform_edges_csv_row(input[next], hdr, args.edge_coll,
                                        args.smart_index, translation)
    /\ writer' = Append(writer, WriteRow(row_parts'))
    /\ next' = next + 1
    /\ UNCHANGED <<pc, codecVars, sessionVars, fileVars, data_type, args, input, hdr, translation, status, pass>>

\* transform_edges_jsonl: one iteration of the loop over the lines
EdgesJsonlRow ==
    /\ pc = "rows"
    /\ data_type = "JSONL"
    /\ next <= Len(input)
    /\ LET row == transform_edges_jsonl_row(input[next], args.edge_coll,
                                            args.smart_index, translation)
       IN  writer' = IF row = Skip THEN writer ELSE Append(writer, row)
    /\ next' = next + 1
    /\ UNCHANGED <<pc, codecVars, sessionVars, fileVars, data_type, args, input, hdr, row_parts, translation, status, pass>>

\* transform_edges_*: end of input; the rewritten lines replace the file and 0
\* is returned
EdgesDone ==
    /\ pc = "rows"
    /\ next > Len(input)
    /\ pc' = "done"
    /\ status' = 0
    /\ UNCHANGED <<codecVars, sessionVars, fileVars, data_type, args, input, next, hdr, row_parts, writer, translation, pass>>

EdgeNext ==
    \/ EdgesCsvHeader
    \/ EdgesCsvRow
    \/ EdgesJsonlRow
    \/ EdgesDone
    \/ RunAgain

SpecEdge == EdgeInit /\ [][EdgeNext]_vars

\* C2: the edge transform applied to its own output, with the same edge
\* specification and truncation length, writes that output again.
EdgeIdempotent ==
    (pass = 2 /\ pc = "done") => (status = 0 /\ writer = input)

\* the edge record of a finished run has been read and written
EdgeRecordDone == pc = "done" /\ status = 0 /\ Len(writer) >= DataIndex

\* the fields of the tabular data row read, padded as the loop pads them
PartsRead == Pad(split(RecordRead), Len(hdr.col_headers))

\* the logical values of _from, _to and _key of the edge record read and of
\* the edge record written; None where the record holds no such string
InFrom ==
    IF data_type = "CSV" THEN CsvField(PartsRead, hdr.from_pos)
    ELSE JsonField(RecordRead, FromField)
InTo ==
    IF data_type = "CSV" THEN CsvField(PartsRead, hdr.to_pos)
    ELSE JsonField(RecordRead, ToField)
InKey ==
    IF data_type = "CSV" THEN CsvField(PartsRead, hdr.key_pos)
    ELSE JsonField(RecordRead, KeyField)
OutFrom ==
    IF data_type = "CSV" THEN CsvField(row_parts, hdr.from_pos)
    ELSE JsonField(RecordWritten, FromField)
OutTo ==
    IF data_type = "CSV" THEN CsvField(row_parts, hdr.to_pos)
    ELSE JsonField(RecordWritten, ToField)
OutKey ==
    IF data_type = "CSV" THEN CsvField(row_parts, hdr.key_pos)
    ELSE JsonField(RecordWritten, KeyField)

\* the key portion of a reference: what follows its first slash, the whole
\* reference if it has no slash
KeyPortion(ref) ==
    IF Contains(ref, "/") THEN Slice(ref, Find(ref, "/") + 1, Len(ref)) ELSE ref

\* the reference qualified with the default collection if it has no slash
Qualified(ref, default_coll) ==
    IF Contains(ref, "/") THEN ref ELSE default_coll \o <<"/">> \o ref

\* ref is collection/attribute:key with a non-empty collection without slash,
\* a non-empty attribute without colon and a non-empty key, or collection/key
\* with a non-empty key without colon
WellFormedRef(ref) ==
    /\ Find(ref, "/") > 0
    /\ LET rest == KeyPortion(ref)
       IN  IF Contains(rest, ":")
           THEN Find(rest, ":") > 0 /\ Find(rest, ":") + 1 < Len(rest)
           ELSE rest # <<>>

\* C5: every _from and _to string written is in the resolved form
\* collection/attribute:key or in the unresolved form collection/key.
EndpointInvariant ==
    EdgeRecordDone =>
        /\ OutFrom # None => WellFormedRef(OutFrom)
        /\ OutTo # None => WellFormedRef(OutTo)

\* an endpoint read with a colon in its key portion is written back as it is
\* if it has a slash, and with only the default collection put in front if it
\* has none
ColonKept(in, out, default_coll) ==
    (in # None /\ Contains(KeyPortion(in), ":")) => out = Qualified(in, default_coll)

\* C7: an endpoint whose key portion holds a colon gets no attribute prefix:
\* collection/attribute:key is written back unchanged, a bare key with a colon
\* is written as collection/key.
ColonEndpointKept ==
    EdgeRecordDone =>
        /\ ColonKept(InFrom, OutFrom, args.edge_coll.from_vertex_coll)
        /\ ColonKept(InTo, OutTo, args.edge_coll.to_vertex_coll)

\* the reference is composite as read: a colon follows its slash
AlreadyComposite(ref) ==
    ref # None /\ Contains(ref, "/") /\ Contains(KeyPortion(ref), ":")

\* an attribute can be derived for the reference: its key portion is longer
\* than the truncation length, or the translation table knows the reference
CanDerive(ref, default_coll) ==
    /\ ref # None
    /\ \/ args.smart_index > 0 /\ Len(KeyPortion(ref)) > args.smart_index
       \/ Lookup(translation, Qualified(ref, default_coll)).some

\* C8: the _key of an edge is written as it was read if one of its endpoints
\* was composite as read, or no attribute can be derived for one of its
\* endpoints, or the _key holds a colon.
EdgeKeyUntouched ==
    (/\ EdgeRecordDone
     /\ InKey # None
     /\ \/ AlreadyComposite(InFrom)
        \/ AlreadyComposite(InTo)
        \/ ~CanDerive(InFrom, args.edge_coll.from_vertex_coll)
        \/ ~CanDerive(InTo, args.edge_coll.to_vertex_coll)
        \/ Contains(InKey, ":"))
        => OutKey = InKey

\* the endpoint gets a derived attribute in this run: it holds no colon and
\* an attribute can be derived for it
Derives(ref, default_coll) ==
    ref # None /\ ~Contains(ref, ":") /\ CanDerive(ref, default_coll)

\* the attribute derived: the first smart_index characters of the key
\* portion, else the attribute the translation table holds
DerivedAttr(ref, default_coll) ==
    IF args.smart_index > 0 /\ Len(KeyPortion(ref)) > args.smart_index
    THEN Slice(KeyPortion(ref), 0, args.smart_index)
    ELSE Lookup(translation, Qualified(ref, default_coll)).v

MaxRows == 2

\* the data rows and the lines edge files are made of
FileRows ==
    {WriteRow(<<<<"a", "a">>, <<"b", "b">>, <<"e">>>>),
     WriteRow(<<<<"f", "/", "a", ":", "a">>, <<"b">>, <<"e", ":">>>>)}
FileJsonLines ==
    {Object(EdgeObject(Str(<<"a", "a">>), Str(<<"b", "b">>), Str(<<"e">>))),
     Object(EdgeObject(Str(<<"f", "/", "a", ":", "a">>), Str(<<"b">>), Absent)),
     [kind |-> "invalid", obj |-> <<>>]}

\* edge files: tabular without lines, without _from column, and of a header
\* row and up to MaxRows data rows; objects, up to MaxRows lines
EdgeFileContents(dt) ==
    IF dt = "CSV"
    THEN {<<>>, <<WriteHeader(<<ToField, KeyField>>)>>}
         \cup {<<WriteHeader(<<FromField, ToField, KeyField>>)>> \o rows :
                  rows \in StrUpTo(FileRows, MaxRows)}
    ELSE StrUpTo(FileJsonLines, MaxRows)

\* the edge file may be missing, a temporary file may have been left behind
EdgeFileInit ==
    /\ CodecIdle
    /\ data_type \in {"CSV", "JSONL"}
    /\ args \in EdgeArgs
    /\ \E f \in {NoFile} \cup {File(c) : c \in EdgeFileContents(data_type)},
          o \in {NoFile, File(<<>>)} :
          fs = (args.edge_coll.file_name :> f)
               @@ (out_name(args.edge_coll.file_name) :> o)
    /\ original = fs
    /\ SessionIdle
    /\ pc = "open"
    /\ input = <<>>
    /\ next = 1
    /\ hdr = NoHeader
    /\ row_parts = <<>>
    /\ writer = <<>>
    /\ translation = [key_tab |-> <<>>, smart_attributes |-> <<>>]
    /\ status = -1
    /\ pass = 1

\* File::open(in_path) (main.rs:866-872, 1075-1081): a file that is missing or
\* cannot be read gives status 1
EdgesOpen ==
    /\ pc = "open"
    /\ \/ /\ fs[args.edge_coll.file_name].exists
          /\ input' = fs[args.edge_coll.file_name].lines
          /\ pc' = "create"
          /\ UNCHANGED status
       \/ /\ pc' = "open_failed"
          /\ status' = 1
          /\ UNCHANGED input
    /\ UNCHANGED <<codecVars, sessionVars, fileVars, data_type, args, next, hdr, row_parts, writer,
                   translation, pass>>

\* File::create(&out_path) (main.rs:874-883, 1083-1092): the temporary file
\* is made or emptied, or status 2
EdgesCreate ==
    /\ pc = "create"
    /\ \/ /\ fs' = [fs EXCEPT ![out_name(args.edge_coll.file_name)] = File(<<>>)]
          /\ pc' = IF data_type = "CSV" THEN "header" ELSE "rows"
          /\ UNCHANGED status
       \/ /\ pc' = "create_failed"
          /\ status' = 2
          /\ UNCHANGED fs
    /\ UNCHANGED <<codecVars, sessionVars, original, data_type, args, input, next, hdr, row_parts, writer,
                   translation, pass>>

\* write!(...).unwrap() (main.rs:1020-1027, 1176): a write that fails ends
\* the run with a panic; some of the lines written have reached the file
EdgesWritePanics ==
    /\ pc = "rows"
    /\ next <= Len(input)
    /\ \E n \in 0..Len(writer) :
          fs' = Dropped(fs, args.edge_coll.file_name, SubSeq(writer, 1, n))
    /\ pc' = "panicked"
    /\ UNCHANGED <<codecVars, sessionVars, original, data_type, args, input, next, hdr, row_parts, writer,
                   translation, status, pass>>

\* writer.flush() (main.rs:1041-1047, 1190-1196): all lines reach the
\* temporary file, or some of them and status 5
EdgesFlush ==
    /\ pc = "rows"
    /\ next > Len(input)
    /\ \/ /\ fs' = Dropped(fs, args.edge_coll.file_name, writer)
          /\ pc' = "remove"
          /\ UNCHANGED status
       \/ /\ \E n \in 0..Len(writer) :
                fs' = Dropped(fs, args.edge_coll.file_name, SubSeq(writer, 1, n))
          /\ pc' = "flush_failed"
          /\ status' = 5
    /\ UNCHANGED <<codecVars, sessionVars, original, data_type, args, input, next, hdr, row_parts, writer,
                   translation, pass>>

\* std::fs::remove_file(&edge_coll.file_name).ok() (main.rs:1050, 1197): the
\* data file is removed, or it is not and nobody is told
EdgesRemove ==
    /\ pc = "remove"
    /\ \/ fs' = [fs EXCEPT ![args.edge_coll.file_name] = NoFile]
       \/ UNCHANGED fs
    /\ pc' = "rename"
    /\ UNCHANGED <<codecVars, sessionVars, original, data_type, args, input, next, hdr, row_parts, writer,
                   translation, status, pass>>

\* std::fs::rename(&out_path, &in_path).ok() and the return of 0
\* (main.rs:1051-1058, 1198-1204): the temporary file takes the data file's
\* path, or it does not and nobody is told
EdgesRename ==
    /\ pc = "rename"
    /\ \/ fs' = [fs EXCEPT ![args.edge_coll.file_name] = fs[out_name(args.edge_coll.file_name)],
                           ![out_name(args.edge_coll.file_name)] = NoFile]
       \/ UNCHANGED fs
    /\ pc' = "done"
    /\ status' = 0
    /\ UNCHANGED <<codecVars, sessionVars, original, data_type, args, input, next, hdr, row_parts, writer,
                   translation, pass>>

EdgeFileNext ==
    \/ EdgesOpen
    \/ EdgesCreate
    \/ EdgesCsvHeader
    \/ EdgesCsvRow
    \/ EdgesJsonlRow
    \/ EdgesWritePanics
    \/ EdgesFlush
    \/ EdgesRemove
    \/ EdgesRename

SpecEdgeFile == EdgeFileInit /\ [][EdgeFileNext]_vars

\* C10: a data file that cannot be opened, a temporary file that cannot be
\* created and a flush that fails are told apart by the statuses 1, 2 and 5,
\* and each leaves the data file as it was before the run.
FailureLeavesOriginal ==
    /\ (pc = "open_failed") <=> (status = 1)
    /\ (pc = "create_failed") <=> (status = 2)
    /\ (pc = "flush_failed") <=> (status = 5)
    /\ status \in {1, 2, 5}
         => fs[args.edge_coll.file_name] = original[args.edge_coll.file_name]

\* the flush of a rewritten file of two data rows has failed after the
\* header row and one data row reached the temporary file
FailureLeavesOriginalWitness ==
    /\ pc = "flush_failed"
    /\ data_type = "CSV"
    /\ Len(original[args.edge_coll.file_name].lines) = 3
    /\ Len(fs[out_name(args.edge_coll.file_name)].lines) = 2

\* C11: whenever the edge transform of a file has returned 0, the path of the
\* edge file holds the rewritten lines and the temporary file is gone.
ReplaceOnSuccess ==
    (pc = "done" /\ status = 0)
        => /\ fs[args.edge_coll.file_name] = File(writer)
           /\ ~fs[out_name(args.edge_coll.file_name)].exists

\* the written tabular line, tokenized again, gives the fields written
ReadsBackAsWritten(line, fields) ==
    /\ Len(split(line)) = Len(fields)
    /\ \A i \in 1..Len(fields) : unquote(split(line)[i]) = unquote(fields[i])

\* C16: every field written into a tabular row that holds the separator or
\* the quote character is wrapped in the quote character, so that the line
\* tokenizes into the same number of fields with the same logical values.
TabularRowFormat ==
    (EdgeRecordDone /\ data_type = "CSV")
        => ReadsBackAsWritten(RecordWritten, row_parts)

\* C18: a vertex record whose source key holds no colon is written with the
\* key attribute:key in both paths, for every attribute, the empty one too.
VertexKeyComposition ==
    (RecordDone /\ SourceKey # None /\ ~Contains(SourceKey, ":"))
        => WrittenKey = WrittenAttr \o <<":">> \o SourceKey

\* C19: a source key with a colon whose text before the first colon is not
\* the derived attribute is written as attribute:suffix by the tabular path
\* and as it is by the object path; a source key whose text before the first
\* colon is the derived attribute is written as it is by both paths (where
\* the record has a key field to write).
CompositeVertexKey ==
    (/\ RecordDone
     /\ data_type = "CSV" => hdr.key_pos >= 0
     /\ SourceKey # None
     /\ Contains(SourceKey, ":"))
        => IF data_type = "CSV" /\ Slice(SourceKey, 0, Find(SourceKey, ":")) # WrittenAttr
           THEN WrittenKey = WrittenAttr \o <<":">>
                             \o Slice(SourceKey, Find(SourceKey, ":") + 1, Len(SourceKey))
           ELSE WrittenKey = SourceKey

\* the names of the columns are among the header's
HasColumn(col_headers, name) == \E i \in 1..Len(col_headers) : col_headers[i] = name

\* C20: the tabular vertex transform writes the header once, before the data
\* row; the header written has a column for the attribute and a column for
\* the key; and the row written from a row of no more fields than the header
\* read has as many fields as the header written, whatever columns the header
\* read has and whether or not the key is forced.
HeaderRowConsistent ==
    (data_type = "CSV" /\ RecordDone /\ Len(split(RecordRead)) <= Len(split(input[1])))
        => /\ Len(writer) = 2
           /\ writer[1] = WriteHeader(hdr.col_headers)
           /\ HasColumn(hdr.col_headers, args.smart_attr)
           /\ HasColumn(hdr.col_headers, KeyField)
           /\ Len(row_parts) = Len(hdr.col_headers)

\* ------------------------------------------------------ edges, column renames

MaxRenames == 2

\* the names a header column has or is renamed to
RenameNames == {FromField, ToField, KeyField, <<"c">>}

\* a tabular edge file of three columns and one data row, and an edge
\* specification with up to MaxRenames (position, new name) pairs
\* (parse_edge_collections, main.rs:823-832); position 3 is beyond the header
EdgeRenameInit ==
    /\ CodecIdle
    /\ data_type = "CSV"
    /\ \E a \in RenameNames \ {KeyField}, b \in RenameNames \ {KeyField},
          c \in {KeyField, <<"c">>}, rn \in StrUpTo((0..3) \X RenameNames, MaxRenames) :
          /\ input = <<WriteHeader(<<a, b, c>>), WriteRow(<<<<"a">>, <<"b">>, <<"e">>>>)>>
          /\ args = [smart_index |-> 1,
                     edge_coll |-> [file_name |-> "edges", from_vertex_coll |-> <<"f">>,
                                    to_vertex_coll |-> <<"t">>, column_renames |-> rn]]
    /\ pc = "header"
    /\ next = 1
    /\ hdr = NoHeader
    /\ row_parts = <<>>
    /\ writer = <<>>
    /\ translation = [key_tab |-> <<>>, smart_attributes |-> <<>>]
    /\ status = -1
    /\ pass = 1
    /\ fs = <<>>
    /\ original = <<>>
    /\ SessionIdle

EdgeRenameNext ==
    \/ EdgesCsvHeader
    \/ EdgesCsvRow
    \/ EdgesDone

SpecEdgeRename == EdgeRenameInit /\ [][EdgeRenameNext]_vars

\* the header has been read, renamed and written
HeaderDone == Len(writer) >= 1

\* the positions found with an empty rename list
PlainHeader == EdgeHeader(input[1], [args.edge_coll EXCEPT !.column_renames = <<>>])

\* C14, as stated: the positions read as _from, _to and _key, and whether the
\* file is rejected for a missing _from or _to, are those of the same file
\* with an empty rename list.
RenameIsLabelingOnly ==
    HeaderDone
        => /\ hdr.from_pos = PlainHeader.from_pos
           /\ hdr.to_pos = PlainHeader.to_pos
           /\ hdr.key_pos = PlainHeader.key_pos
           /\ (status = 4) <=> (PlainHeader.from_pos < 0 \/ PlainHeader.to_pos < 0)

\* the name of the column at the 0-based position i once the pairs are
\* applied in list order: the name of the last pair for i, else the name read
NameAfterRenames(i) ==
    LET rn == args.edge_coll.column_renames
        at == {j \in 1..Len(rn) : rn[j][1] = i}
    IN  IF at = {} THEN unquote(split(input[1])[i + 1])
        ELSE rn[CHOOSE j \in at : \A k \in at : k <= j][2]

\* the first 0-based position whose column bears the name once renamed, or -1
FirstNamed(name) ==
    LET at == {i \in 0..(Len(split(input[1])) - 1) : NameAfterRenames(i) = name}
    IN  IF at = {} THEN -1 ELSE CHOOSE i \in at : \A k \in at : i <= k

\* C14, amended: the header written bears the names after the renames, pairs
\* beyond the header ignored; the positions read and rewritten as _from, _to
\* and _key are the first columns bearing these names after the renames; the
\* file is rejected exactly if no column is then named _from or none _to; and
\* of the data row exactly the fields at these positions are rewritten.
RenameMovesColumns ==
    HeaderDone
        => /\ writer[1] = WriteHeader([i \in 1..Len(split(input[1])) |-> NameAfterRenames(i - 1)])
           /\ hdr.from_pos = FirstNamed(FromField)
           /\ hdr.to_pos = FirstNamed(ToField)
           /\ hdr.key_pos = FirstNamed(KeyField)
           /\ (status = 4) <=> (FirstNamed(FromField) < 0 \/ FirstNamed(ToField) < 0)
           /\ EdgeRecordDone
                => /\ OutFrom # InFrom
                   /\ OutTo # InTo
                   /\ \A i \in 0..(Len(row_parts) - 1) :
                         i \notin {FirstNamed(FromField), FirstNamed(ToField), FirstNamed(KeyField)}
                             => row_parts[i + 1] = PartsRead[i + 1]

\* a file rejected with an empty rename list is rewritten at the positions
\* its renames name
RenameMovesColumnsWitness ==
    /\ EdgeRecordDone
    /\ PlainHeader.from_pos < 0
    /\ hdr.from_pos >= 0
    /\ OutFrom # InFrom

\* --------------------------------------------------- edges, longer endpoints

\* an edge file of one record whose _from is a reference of up to
\* MaxRefLen + 1 characters, as SpecEdge has it for up to MaxRefLen
EdgeRefInit ==
    /\ CodecIdle
    /\ data_type \in {"CSV", "JSONL"}
    /\ args \in EdgeArgs
    /\ \E f \in StrUpTo({"a", ":", "/"}, MaxRefLen + 1) :
          input = IF data_type = "CSV"
                  THEN EdgeCsvFile("full", f, <<"b">>, <<"e">>)
                  ELSE <<EdgeJsonLine("full", Str(f), Str(<<"b">>), Str(<<"e">>))>>
    /\ pc = IF data_type = "CSV" THEN "header" ELSE "rows"
    /\ next = 1
    /\ hdr = NoHeader
    /\ row_parts = <<>>
    /\ writer = <<>>
    /\ translation = [key_tab |-> <<>>, smart_attributes |-> <<>>]
    /\ status = -1
    /\ pass = 1
    /\ fs = <<>>
    /\ original = <<>>
    /\ SessionIdle

SpecEdgeRef == EdgeRefInit /\ [][EdgeNext]_vars

\* the reference the resolution rule gives for the endpoint read: with the
\* first N characters of the key as attribute if N > 0 and the key is longer
\* than N, else with the attribute the table has for collection/key, else
\* collection/key
RuleResult(in, default_coll) ==
    LET q    == Qualified(in, default_coll)
        coll == Slice(q, 0, Find(q, "/"))
        key  == KeyPortion(q)
        N    == args.smart_index
    IN  IF N > 0 /\ Len(key) > N THEN Resolved(coll, Slice(key, 0, N), key)
        ELSE IF Lookup(translation, q).some
        THEN Resolved(coll, Lookup(translation, q).v, key)
        ELSE q

\* C17: an endpoint whose key portion holds no colon is written as the
\* resolution rule gives it, the same for the bare key and for the key
\* qualified with its collection.
EndpointResolution ==
    EdgeRecordDone
        => /\ (InFrom # None /\ ~Contains(KeyPortion(InFrom), ":"))
                => OutFrom = RuleResult(InFrom, args.edge_coll.from_vertex_coll)
           /\ (InTo # None /\ ~Contains(KeyPortion(InTo), ":"))
                => OutTo = RuleResult(InTo, args.edge_coll.to_vertex_coll)

\* ------------------------------------------- vertices, then a list of edges

MaxColls == 2

\* the paths handed to the vertices subcommand (main.rs:584-596)
input_file == "v"
output_file == "w"

\* the i-th edge collection of the list handed to do_edges; the files of a
\* list are distinct
EdgeColl(i) ==
    [file_name |-> "e" \o ToString(i), from_vertex_coll |-> <<"f">>,
     to_vertex_coll |-> <<"t">>, column_renames |-> <<>>]

\* the vertex file: missing, without lines, of one record
SessionVertexFiles(dt) ==
    IF dt = "CSV"
    THEN {NoFile, File(<<>>), File(<<WriteHeader(<<KeyField>>), WriteRow(<<<<"k", "k">>>>)>>)}
    ELSE {NoFile, File(<<>>), File(<<Object((KeyField :> Str(<<"k", "k">>)))>>)}

\* an edge file: missing, without lines, without _from column, of one record
SessionEdgeFiles(dt) ==
    IF dt = "CSV"
    THEN {NoFile, File(<<>>), File(<<WriteHeader(<<ToField, KeyField>>)>>),
          File(<<WriteHeader(<<FromField, ToField, KeyField>>),
                 WriteRow(<<<<"k", "k">>, <<"b">>, <<"e">>>>)>>)}
    ELSE {NoFile, File(<<>>),
          File(<<Object(EdgeObject(Str(<<"k", "k">>), Str(<<"b">>), Str(<<"e">>)))>>)}

\* the vertices subcommand is run on the vertex file, then the edges
\* subcommand on a list of up to MaxColls edge files (main.rs:584, 630)
SessionInit ==
    /\ CodecIdle
    /\ data_type \in {"CSV", "JSONL"}
    /\ args = [smart_attr |-> SmartId, smart_value |-> <<>>, smart_index |-> 1,
               smart_default |-> <<>>, write_key |-> FALSE, key_value |-> <<>>]
    /\ \E n \in 1..MaxColls :
          \E vf \in SessionVertexFiles(data_type), ef \in [1..n -> SessionEdgeFiles(data_type)] :
             /\ colls = [i \in 1..n |-> EdgeColl(i)]
             /\ fs = (input_file :> vf) @@ (output_file :> NoFile)
                     @@ [q \in {EdgeColl(i).file_name : i \in 1..n} |->
                           ef[CHOOSE i \in 1..n : EdgeColl(i).file_name = q]]
                     @@ [q \in {out_name(EdgeColl(i).file_name) : i \in 1..n} |-> NoFile]
    /\ original = fs
    /\ results = <<>>
    /\ ret = -1
    /\ log = {}
    /\ pc = "open"
    /\ input = <<>>
    /\ next = 1
    /\ hdr = NoHeader
    /\ row_parts = <<>>
    /\ writer = <<>>
    /\ translation = [key_tab |-> <<>>, smart_attributes |-> <<>>]
    /\ status = -1
    /\ pass = 1

\* which subcommand runs: args holds the options of the one or of the other
InVertices == "smart_attr" \in DOMAIN args
InEdges == "edge_coll" \in DOMAIN args

\* File::open(input_file) (main.rs:663-669): status 1 if it fails
VerticesOpen ==
    /\ pc = "open"
    /\ \/ /\ fs[input_file].exists
          /\ input' = fs[input_file].lines
          /\ pc' = "create"
          /\ UNCHANGED status
       \/ /\ pc' = "open_failed"
          /\ status' = 1
          /\ UNCHANGED input
    /\ UNCHANGED <<codecVars, sessionVars, fileVars, data_type, args, next, hdr, row_parts, writer, translation, pass>>

\* File::create(output_file) (main.rs:673-679): status 2 if it fails
VerticesCreate ==
    /\ pc = "create"
    /\ \/ /\ fs' = [fs EXCEPT ![output_file] = File(<<>>)]
          /\ pc' = IF data_type = "CSV" THEN "header" ELSE "rows"
          /\ UNCHANGED status
       \/ /\ pc' = "create_failed"
          /\ status' = 2
          /\ UNCHANGED fs
    /\ UNCHANGED <<codecVars, sessionVars, original, data_type, args, input, next, hdr, row_parts, writer, translation, pass>>

\* writer.flush() and the return of do_vertices (main.rs:796-800): all lines
\* reach the output file and 0 is returned, or some of them and 4
DoVerticesFlush ==
    /\ pc = "rows"
    /\ next > Len(input)
    /\ \/ /\ fs' = [fs EXCEPT ![output_file] = File(writer)]
          /\ pc' = "done"
          /\ status' = 0
       \/ /\ \E n \in 0..Len(writer) :
                fs' = [fs EXCEPT ![output_file] = File(SubSeq(writer, 1, n))]
          /\ pc' = "flush_failed"
          /\ status' = 4
    /\ UNCHANGED <<codecVars, sessionVars, original, data_type, args, input, next, hdr, row_parts, writer, translation, pass>>

\* a transform has returned
Returned == pc \in {"done", "open_failed", "create_failed", "flush_failed"}

\* the outcome class of the transform that has returned
Outcome ==
    IF pc = "open_failed" THEN "cannot open input"
    ELSE IF pc = "create_failed" THEN "cannot create output"
    ELSE IF pc = "flush_failed" THEN "flush failure"
    ELSE IF data_type = "CSV" /\ input = <<>> THEN "header row missing"
    ELSE IF InEdges /\ data_type = "CSV" /\ (hdr.from_pos < 0 \/ hdr.to_pos < 0)
    THEN "missing _from/_to"
    ELSE "success"

\* the loop goes on after every transform
ReturnsNever(res) == FALSE

\* if res != 0 { return res; } (main.rs:1296-1298)
Returns(res) == res # 0

\* std::process::exit(do_vertices(...)) (main.rs:584); then the edges
\* subcommand is run: do_edges makes its empty Translation and hands the
\* first edge collection to the transform (main.rs:630, 1288-1295)
DoVerticesExit ==
    /\ Returned
    /\ log' = log \cup {[class |-> Outcome, code |-> status]}
    /\ args' = [smart_index |-> args.smart_index, edge_coll |-> colls[1]]
    /\ translation' = [key_tab |-> <<>>, smart_attributes |-> <<>>]
    /\ original' = fs
    /\ pc' = "open"
    /\ input' = <<>>
    /\ next' = 1
    /\ hdr' = NoHeader
    /\ row_parts' = <<>>
    /\ writer' = <<>>
    /\ status' = -1
    /\ UNCHANGED <<codecVars, data_type, pass, fs, colls, results, ret>>

\* do_edges, the loop over edge_collections (main.rs:1291-1301): the status
\* of the transform is returned if it is not 0; else the next edge collection
\* is handed to the transform, or 0 is returned after the last
DoEdgesLoop ==
    /\ Returned
    /\ ret = -1
    /\ results' = Append(results, status)
    /\ log' = log \cup {[class |-> Outcome, code |-> status]}
    /\ IF Returns(status)
       THEN /\ ret' = status
            /\ pc' = "returned"
            /\ UNCHANGED <<args, input, next, hdr, row_parts, writer, status>>
       ELSE IF Len(results') < Len(colls)
       THEN /\ args' = [args EXCEPT !.edge_coll = colls[Len(results') + 1]]
            /\ pc' = "open"
            /\ input' = <<>>
            /\ next' = 1
            /\ hdr' = NoHeader
            /\ row_parts' = <<>>
            /\ writer' = <<>>
            /\ status' = -1
            /\ UNCHANGED ret
       ELSE /\ ret' = 0
            /\ pc' = "returned"
            /\ UNCHANGED <<args, input, next, hdr, row_parts, writer, status>>
    /\ UNCHANGED <<codecVars, fileVars, data_type, translation, pass, colls>>

SessionNext ==
    \/ InVertices /\ VerticesOpen
    \/ InVertices /\ VerticesCreate
    \/ InVertices /\ DoVerticesHeader
    \/ InVertices /\ DoVerticesCsvRow
    \/ InVertices /\ DoVerticesJsonlRow
    \/ InVertices /\ DoVerticesFlush
    \/ InVertices /\ DoVerticesExit
    \/ InEdges /\ EdgesOpen
    \/ InEdges /\ EdgesCreate
    \/ InEdges /\ EdgesCsvHeader
    \/ InEdges /\ EdgesCsvRow
    \/ InEdges /\ EdgesJsonlRow
    \/ InEdges /\ EdgesWritePanics
    \/ InEdges /\ EdgesFlush
    \/ InEdges /\ EdgesRemove
    \/ InEdges /\ EdgesRename
    \/ InEdges /\ DoEdgesLoop

SpecSession == SessionInit /\ [][SessionNext]_vars

\* the edge file of the j-th edge collection and its temporary file are as
\* they were when do_edges was entered
Untouched(j) ==
    /\ fs[colls[j].file_name] = original[colls[j].file_name]
    /\ fs[out_name(colls[j].file_name)] = original[out_name(colls[j].file_name)]

\* C12: do_edges hands the edge collections to the transform in list order,
\* each after all before it have returned 0; the files of the edge
\* collections after the one at work, or after the one that failed, are
\* untouched; the first status that is not 0 is returned at once, and 0 is
\* returned only after every transform has returned 0.
StopAtFirstFailure ==
    InEdges
        => /\ ret = -1
                => /\ Len(results) < Len(colls)
                   /\ args.edge_coll = colls[Len(results) + 1]
                   /\ \A j \in 1..Len(results) : results[j] = 0
                   /\ \A j \in (Len(results) + 2)..Len(colls) : Untouched(j)
           /\ ret # -1
                => /\ Len(results) \in 1..Len(colls)
                   /\ ret = results[Len(results)]
                   /\ \A j \in 1..(Len(results) - 1) : results[j] = 0
                   /\ ret = 0 => Len(results) = Len(colls)
                   /\ \A j \in (Len(results) + 1)..Len(colls) : Untouched(j)

\* the transform of the first of two edge files has failed and do_edges has
\* returned its status, the second edge file being there
StopAtFirstFailureWitness ==
    /\ InEdges
    /\ Len(colls) = 2
    /\ Len(results) = 1
    /\ ret \in 1..5
    /\ fs[colls[2].file_name].exists

\* the keys of the vertex records the vertices subcommand has written
VertexKeysSeen ==
    LET lines == fs[output_file].lines
    IN  IF data_type = "CSV"
        THEN IF lines = <<>> THEN {}
             ELSE LET h   == split(lines[1])
                      pos == find_col_pos([i \in 1..Len(h) |-> unquote(h[i])], KeyField)
                  IN  {unquote(split(lines[i])[pos + 1]) : i \in {k \in 2..Len(lines) : pos >= 0}}
        ELSE {JsonField(lines[i], KeyField) : i \in 1..Len(lines)} \ {None}

\* the keys the Translation table has an entry for
TableKeys == {KeyPortion(full_key) : full_key \in DOMAIN translation.key_tab}

\* C13: when the transform of the first edge file begins, the vertex file
\* has been processed and the Translation table has an entry for every
\* vertex key written; while edge files are processed the table stays as
\* it is.
TableBeforeEdges ==
    /\ []((InEdges /\ results = <<>> /\ pc = "open") => VertexKeysSeen \subseteq TableKeys)
    /\ [][InEdges => translation' = translation]_vars

\* C15: over the vertex transform and the edge transforms of a session, two
\* outcomes of the same class have the same status and two outcomes of
\* different classes have different statuses.
DistinctExitCodes ==
    \A p \in log : \A q \in log : (p.class = q.class) <=> (p.code = q.code)

\* C23: no data row of a tabular vertex file aborts the run: every position
\* transform_vertex_csv reads or writes lies inside the padded row, whatever
\* columns the header has and whatever options are given.
NoRowAborts ==
    data_type = "CSV" => pc # "panicked"

\* ------------------------------------------------------------- the tokenizer

\* split is handed one line of up to MaxLineLen characters, of one or of two
\* bytes each
SplitInit ==
    /\ CodecIdle
    /\ data_type = "CSV"
    /\ args = <<>>
    /\ \E line \in StrUpTo({"a", sep, quo, Wide}, MaxLineLen) : input = <<line>>
    /\ pc = "split"
    /\ next = 1
    /\ hdr = NoHeader
    /\ row_parts = <<>>
    /\ writer = <<>>
    /\ translation = [key_tab |-> <<>>, smart_attributes |-> <<>>]
    /\ status = -1
    /\ pass = 1
    /\ fs = <<>>
    /\ original = <<>>
    /\ SessionIdle

\* let mut parts = split(&line_str, sep, quo) (main.rs:198, 930)
Split ==
    /\ pc = "split"
    /\ IF split(input[1]) = Panic
       THEN pc' = "panicked" /\ UNCHANGED row_parts
       ELSE pc' = "done" /\ row_parts' = split(input[1])
    /\ UNCHANGED <<codecVars, sessionVars, fileVars, data_type, args, input, next, hdr, writer, translation, status, pass>>

SpecSplit == SplitInit /\ [][Split]_vars

\* the number of separator characters of line, from the 1-based character i
\* on, that lie outside quoted spans: a quote character opens a span, the
\* next quote character that is not doubled closes it, a span never closed
\* runs to the end of the line
RECURSIVE SepsOutside(_, _, _)
SepsOutside(line, i, in_span) ==
    IF i > Len(line) THEN 0
    ELSE IF in_span
    THEN IF line[i] # quo THEN SepsOutside(line, i + 1, TRUE)
         ELSE IF i < Len(line) /\ line[i + 1] = quo THEN SepsOutside(line, i + 2, TRUE)
         ELSE SepsOutside(line, i + 1, FALSE)
    ELSE IF line[i] = quo THEN SepsOutside(line, i + 1, TRUE)
         ELSE IF line[i] = sep THEN 1 + SepsOutside(line, i + 1, FALSE)
         ELSE SepsOutside(line, i + 1, FALSE)

\* C22: split of a line returns one raw field more than the line has
\* separator characters outside quoted spans, and the fields joined with
\* the separator are the line; the empty line gives one empty field.
Tokenizer ==
    pc # "split"
        => /\ pc = "done"
           /\ Len(row_parts) = SepsOutside(input[1], 1, FALSE) + 1
           /\ WriteRow(row_parts) = input[1]
           /\ input[1] = <<>> => row_parts = <<<<>>>>

\* ------------------------------------------------- files of several records

\* the value column v tells the records of a file apart
Tags == {<<"x">>, <<"y">>}

\* tabular vertex files: with or without _key column, up to MaxRows data rows
OrderVertexCsv ==
    {<<WriteHeader(<<KeyField, ValueField>>)>> \o rows :
        rows \in StrUpTo({WriteRow(<<<<"k">>, tag>>) : tag \in Tags}, MaxRows)}
    \cup {<<WriteHeader(<<ValueField>>)>> \o rows : rows \in StrUpTo(Tags, MaxRows)}

\* tabular edge files of up to MaxRows data rows
OrderEdgeCsv ==
    {<<WriteHeader(<<FromField, ToField, ValueField>>)>> \o rows :
        rows \in StrUpTo({WriteRow(<<<<"a">>, <<"b">>, tag>>) : tag \in Tags}, MaxRows)}

\* object files of up to MaxRows lines: records, lines that do not parse,
\* lines that are no objects
OrderJsonl(names) ==
    StrUpTo({Object([n \in names \cup {ValueField} |->
                        IF n = ValueField THEN Str(tag) ELSE Str(<<"k">>)]) : tag \in Tags}
            \cup {[kind |-> "invalid", obj |-> <<>>], [kind |-> "scalar", obj |-> <<>>]},
            MaxRows)

\* one run of the vertices subcommand or of the edges subcommand on one file
OrderInit ==
    /\ CodecIdle
    /\ data_type \in {"CSV", "JSONL"}
    /\ \/ /\ \E w \in BOOLEAN :
                args = [smart_attr |-> SmartId, smart_value |-> <<>>, smart_index |-> -1,
                        smart_default |-> <<>>, write_key |-> w, key_value |-> <<>>]
          /\ input \in IF data_type = "CSV" THEN OrderVertexCsv ELSE OrderJsonl({KeyField})
       \/ /\ args = [smart_index |-> -1, edge_coll |-> EdgeColl(1)]
          /\ input \in IF data_type = "CSV" THEN OrderEdgeCsv
                        ELSE OrderJsonl({FromField, ToField})
    /\ pc = IF data_type = "CSV" THEN "header" ELSE "rows"
    /\ next = 1
    /\ hdr = NoHeader
    /\ row_parts = <<>>
    /\ writer = <<>>
    /\ translation = [key_tab |-> <<>>, smart_attributes |-> <<>>]
    /\ status = -1
    /\ pass = 1
    /\ fs = <<>>
    /\ original = <<>>
    /\ SessionIdle

OrderNext ==
    \/ InVertices /\ DoVerticesHeader
    \/ InVertices /\ DoVerticesCsvRow
    \/ InVertices /\ DoVerticesJsonlRow
    \/ InVertices /\ DoVerticesDone
    \/ InEdges /\ EdgesCsvHeader
    \/ InEdges /\ EdgesCsvRow
    \/ InEdges /\ EdgesJsonlRow
    \/ InEdges /\ EdgesDone

SpecOrder == OrderInit /\ [][OrderNext]_vars

\* the line is a record of an object file
IsRecord(line) == line.kind = "object"

\* the values of column v in the data rows of a tabular file, in the order
\* of the rows, and of field v in the records of an object file
TagsOf(lines) ==
    IF data_type = "CSV"
    THEN LET h   == split(lines[1])
             pos == find_col_pos([i \in 1..Len(h) |-> unquote(h[i])], ValueField)
         IN  [i \in 1..(Len(lines) - 1) |-> CsvField(split(lines[i + 1]), pos)]
    ELSE LET records == SelectSeq(lines, IsRecord)
         IN  [i \in 1..Len(records) |-> JsonField(records[i], ValueField)]

\* C21: when a run ends, the records written are the records read, one for
\* one and in the order read: every data row of a tabular file, and every
\* line of an object file that parses and is an object.
RecordOrder ==
    pc \in {"done", "panicked"} => TagsOf(writer) = TagsOf(input)

====
